---- MODULE Spec2Model ----
(***************************************************************************)
(* Stacked-bar layout and label placement of apps/report_sgk/main.py:      *)
(* render_stacked_bar, calculate_flexbox_positions, order_options_by_      *)
(* overall and color_map_for_options.                                      *)
(*                                                                         *)
(* Percentages are exact rationals <<n, d>> (d > 0, lowest terms); the     *)
(* code's floats are their rounding.  An option is a natural number whose  *)
(* numeric order is the lexicographic order of the option's label; a label *)
(* text is known by its character counts (ASCII / non-ASCII), which is all *)
(* the width estimate reads.                                               *)
(***************************************************************************)
EXTENDS Integers, Sequences, FiniteSets, TLC

VARIABLES
    counts,       \* dict option -> count (aggregate_group's result)
    order,        \* list of options (order_options_by_overall's result)
    config,       \* ComponentConfig thresholds
    layout,       \* what render_stacked_bar returned
    labels_data,  \* calculate_flexbox_positions' argument
    positions,    \* calculate_flexbox_positions' result
    cmap,         \* color_map_for_options' result
    cell,         \* cell_to_unique_set's argument
    chosen,       \* cell_to_unique_set's result
    frame,        \* the rows of a data frame: frame[qcol] and the group columns
    S_sum,        \* aggregate_group's running total S
    row,          \* the row aggregate_group's loop stands at
    bars,         \* the bars render_question_section has drawn
    yaml_choice,     \* resolve_choice_with_mapping's fragment
    choice_mapping,  \* resolve_choice_with_mapping's mapping (None, dict or list)
    actual_choices,  \* resolve_choice_with_mapping's known-option set
    yaml_choices,    \* resolve_choice_with_mapping's list of configured choices
    matched_choice,  \* what resolve_choice_with_mapping returned
    hist,         \* st.session_state["history"]
    pushed,       \* the configurations push_history was called with, in order
    pc            \* "ready" before the call, "done" after it

vars == <<counts, order, config, layout, labels_data, positions, cmap,
          cell, chosen, frame, S_sum, row, bars,
          yaml_choice, choice_mapping, actual_choices, yaml_choices, matched_choice,
          hist, pushed, pc>>

\* the variables of choice resolution and of the run history
toolVars == <<yaml_choice, choice_mapping, actual_choices, yaml_choices, matched_choice,
              hist, pushed>>

\* the variables of the response aggregation
rowVars == <<cell, chosen, frame, S_sum, row, bars>>

---------------------------------------------------------------------------
(* Bounds of the model *)

NumOptions == 3
MaxCount == 2
MaxLabels == 3
MaxColorOptions == 16
MaxCellLen == 4
MaxRows == 3
MaxRespondents == 2
NumLaneOptions == 5
MaxGroupRows == 3
MaxKnown == 2
NumConfigs == 6
MaxPushes == 8

---------------------------------------------------------------------------
(* Exact rational arithmetic *)

Abs(x) == IF x < 0 THEN -x ELSE x

RECURSIVE GCD(_, _)
GCD(a, b) == IF b = 0 THEN a ELSE GCD(b, a % b)

LCM(a, b) == (a \div GCD(a, b)) * b

R(n, d) ==
    LET g == GCD(Abs(n), d)
    IN  <<n \div g, d \div g>>

RInt(n) == <<n, 1>>

RAdd(a, b) ==
    LET L == LCM(a[2], b[2])
    IN  R(a[1] * (L \div a[2]) + b[1] * (L \div b[2]), L)

RSub(a, b) ==
    LET L == LCM(a[2], b[2])
    IN  R(a[1] * (L \div a[2]) - b[1] * (L \div b[2]), L)

RMul(a, b) ==
    LET g1 == GCD(Abs(a[1]), b[2])
        g2 == GCD(Abs(b[1]), a[2])
    IN  IF a[1] = 0 \/ b[1] = 0 THEN <<0, 1>>
        ELSE <<(a[1] \div g1) * (b[1] \div g2), (a[2] \div g2) * (b[2] \div g1)>>

\* a / b for b # 0
RDiv(a, b) ==
    IF b[1] > 0 THEN RMul(a, <<b[2], b[1]>>) ELSE RMul(a, <<-b[2], -b[1]>>)

RLt(a, b) ==
    LET L == LCM(a[2], b[2])
    IN  a[1] * (L \div a[2]) < b[1] * (L \div b[2])

RLe(a, b) == ~RLt(b, a)

RMax(a, b) == IF RLt(a, b) THEN b ELSE a

RHalf(a) == RMul(a, <<1, 2>>)

RECURSIVE RSum(_)
RSum(s) == IF s = <<>> THEN <<0, 1>> ELSE RAdd(s[1], RSum(Tail(s)))

Range(s) == {s[i] : i \in DOMAIN s}

---------------------------------------------------------------------------
(* Label width estimate: estimate_label_width_px / _percent *)

FontSizePt == 8
PxPerPtHundredths == 133
AsciiFactorTenths == 6
Padding == 10
BarWidthPx == 680
OverlapMargin == 2
AvailableWidthPercent == 100

\* a text by its character counts; pct is <<t>> when the text ends with the
\* percentage t (in tenths), NoPct when it is the name alone
NoPct == <<>>
Text(a, w, p) == [ascii |-> a, wide |-> w, pct |-> p]

EstimateLabelWidthPx(text) ==
    IF text.ascii + text.wide = 0 THEN <<0, 1>>
    ELSE LET font_size_px == R(FontSizePt * PxPerPtHundredths, 100)
             ascii_w == RMul(RMul(RInt(text.ascii), font_size_px), R(AsciiFactorTenths, 10))
             japanese_w == RMul(RInt(text.wide), font_size_px)
         IN  RAdd(RAdd(ascii_w, japanese_w), RInt(Padding))

EstimateLabelWidthPercent(text, bar_width_px) ==
    IF bar_width_px <= 0 THEN <<0, 1>>
    ELSE RMul(RDiv(EstimateLabelWidthPx(text), RInt(bar_width_px)), RInt(100))

---------------------------------------------------------------------------
(* calculate_flexbox_positions *)

Label(p, t, o) == [pos |-> p, text |-> t, option |-> o]

LabelWidth(l) == EstimateLabelWidthPercent(l.text, BarWidthPx)
LeftEdge(l) == RSub(l.pos, RHalf(LabelWidth(l)))
RightEdge(l) == RAdd(l.pos, RHalf(LabelWidth(l)))

\* the pairwise check with the margin
HasSignificantOverlap(ld) ==
    \E i \in 1..Len(ld) : \E j \in (i + 1)..Len(ld) :
        ~(  RLe(RAdd(RightEdge(ld[i]), RInt(OverlapMargin)), LeftEdge(ld[j]))
         \/ RLe(RAdd(RightEdge(ld[j]), RInt(OverlapMargin)), LeftEdge(ld[i])))

\* sorted(..., key=center): a stable sort
RECURSIVE InsertByCenter(_, _)
InsertByCenter(l, s) ==
    IF s = <<>> THEN <<l>>
    ELSE IF RLt(l.pos, s[1].pos) THEN <<l>> \o s
    ELSE <<s[1]>> \o InsertByCenter(l, Tail(s))

RECURSIVE SortByCenter(_)
SortByCenter(ld) ==
    IF ld = <<>> THEN <<>>
    ELSE InsertByCenter(ld[Len(ld)], SortByCenter(SubSeq(ld, 1, Len(ld) - 1)))

\* labels_data.index(x): the first place x stands at
IndexOf(ld, x) == CHOOSE i \in 1..Len(ld) : ld[i] = x /\ \A j \in 1..(i - 1) : ld[j] # x

\* faulty variant: the width is read at place 1 of label_widths, whoever it is
WidthOf_FirstEntry(ld, l) == LabelWidth(ld[1])

\* label_widths[labels_data.index(...)]
WidthOf(ld, l) == LabelWidth(ld[IndexOf(ld, l)])

\* the walk over sorted_positions; adj holds adjusted_positions so far
RECURSIVE AdjustFrom(_, _, _, _, _)
AdjustFrom(ld, sorted, i, adj, avail) ==
    IF i > Len(sorted) THEN adj
    ELSE LET width == WidthOf(ld, sorted[i])
             original_center == sorted[i].pos
             pos == IF i = 1
                    THEN RMax(RHalf(width), original_center)
                    ELSE LET prev_pos == adj[i - 1].pos
                             prev_width == WidthOf(ld, sorted[i - 1])
                             min_pos == RAdd(RAdd(RAdd(prev_pos, RHalf(prev_width)),
                                                  RHalf(width)), RInt(OverlapMargin))
                             p == RMax(min_pos, original_center)
                         IN  IF RLt(RInt(avail), RAdd(p, RHalf(width)))
                             THEN RSub(RInt(avail), RHalf(width))
                             ELSE p
         IN  AdjustFrom(ld, sorted, i + 1,
                        Append(adj, Label(pos, sorted[i].text, sorted[i].option)), avail)

AdjustedPositions(ld, avail) == AdjustFrom(ld, SortByCenter(ld), 1, <<>>, avail)

\* faulty variant: the no-overlap early return is missing
CalculateFlexboxPositions_AlwaysAdjust(ld, avail) ==
    IF Len(ld) = 0 THEN <<>>
    ELSE IF Len(ld) = 1 THEN ld
    ELSE AdjustedPositions(ld, avail)

CalculateFlexboxPositions(ld, avail) ==
    IF Len(ld) = 0 THEN <<>>
    ELSE IF Len(ld) = 1 THEN ld
    ELSE IF ~HasSignificantOverlap(ld) THEN ld
    ELSE AdjustedPositions(ld, avail)

---------------------------------------------------------------------------
(* render_stacked_bar *)

\* the "Other" sentinel option; it stands in the middle of the lexicographic order
Other == 2

Opts == 1..NumOptions

\* character counts of an option's label: the sentinel is three full-width
\* characters, every other option one ASCII letter
NameAscii(o) == IF o = Other THEN 0 ELSE 1
NameWide(o) == IF o = Other THEN 3 ELSE 0

\* counts.get(o, 0)
Get(c, o) == IF o \in DOMAIN c THEN c[o] ELSE 0

\* sum(counts.values())
RECURSIVE SumValues(_)
SumValues(c) ==
    IF DOMAIN c = {} THEN 0
    ELSE LET o == CHOOSE x \in DOMAIN c : TRUE
         IN  c[o] + SumValues([x \in DOMAIN c \ {o} |-> c[x]])

\* sum of f over the set D
RECURSIVE RSumOver(_, _)
RSumOver(f, D) ==
    IF D = {} THEN <<0, 1>>
    ELSE LET o == CHOOSE x \in D : TRUE
         IN  RAdd(f[o], RSumOver(f, D \ {o}))

\* faulty variant: the share is taken of the largest count, not of S
ActualWidths_OfMax(c, ord, S) ==
    LET m == CHOOSE x \in {c[o] : o \in DOMAIN c} : \A o \in DOMAIN c : c[o] <= x
    IN  [o \in {x \in Range(ord) : Get(c, x) > 0} |-> R(100 * Get(c, o), m)]

\* faulty variant: options nobody chose are kept, with width 0
ActualWidths_KeepZero(c, ord, S) ==
    [o \in Range(ord) |-> R(100 * Get(c, o), S)]

\* step 1: actual_widths
ActualWidths(c, ord, S) ==
    [o \in {x \in Range(ord) : Get(c, x) > 0} |-> R(100 * Get(c, o), S)]

\* step 2: outside_labels and inside_segments, in the order of `order`
OutsideLabels(aw, ord, cfg) ==
    SelectSeq(ord, LAMBDA o : o \in DOMAIN aw
                              /\ RLt(aw[o], RInt(cfg.outside_label_threshold_pct)))

\* faulty variant: a width equal to the threshold is not labelled inside
InsideSegments_Strict(aw, ord, cfg) ==
    SelectSeq(ord, LAMBDA o : o \in DOMAIN aw
                              /\ RLt(RInt(cfg.outside_label_threshold_pct), aw[o]))

InsideSegments(aw, ord, cfg) ==
    SelectSeq(ord, LAMBDA o : o \in DOMAIN aw
                              /\ ~RLt(aw[o], RInt(cfg.outside_label_threshold_pct)))

\* faulty variant: every segment below the floor is bumped, narrow ones too
Floored_AnyBelowFloor(aw, inside, cfg) ==
    {o \in DOMAIN aw : RLt(aw[o], RInt(cfg.min_segment_width_pct))}

\* step 3: the floor for inside segments
Floored(aw, inside, cfg) ==
    {o \in DOMAIN aw : o \in Range(inside) /\ RLt(aw[o], RInt(cfg.min_segment_width_pct))}

AdjustmentNeeded(aw, inside, cfg) ==
    RSumOver([o \in DOMAIN aw |-> RSub(RInt(cfg.min_segment_width_pct), aw[o])],
             Floored(aw, inside, cfg))

\* step 4: the proportional reduction of the other segments
Reducible(aw, cfg) ==
    {o \in DOMAIN aw : ~RLt(aw[o], RInt(cfg.min_segment_width_pct))}

AdjustedWidths(aw, inside, cfg) ==
    LET floored == [o \in DOMAIN aw |->
                        IF o \in Floored(aw, inside, cfg)
                        THEN RInt(cfg.min_segment_width_pct) ELSE aw[o]]
        adjustment_needed == AdjustmentNeeded(aw, inside, cfg)
        reducible_total == RSumOver(aw, Reducible(aw, cfg))
    IN  IF RLt(<<0, 1>>, adjustment_needed) /\ RLt(<<0, 1>>, reducible_total)
        THEN LET reduction_ratio == RDiv(adjustment_needed, reducible_total)
             IN  [o \in DOMAIN aw |->
                     IF o \in Reducible(aw, cfg)
                     THEN RMul(aw[o], RSub(RInt(1), reduction_ratio))
                     ELSE floored[o]]
        ELSE floored

\* round((c / S) * 100.0, 1), in tenths; an exact tie goes to the even tenth
\* (a float tie needs S >= 20, and then follows the float's own error)
LabelPct(c, S) ==
    LET q == (1000 * c) \div S
        r == (1000 * c) % S
    IN  IF 2 * r < S THEN q
        ELSE IF 2 * r > S THEN q + 1
        ELSE IF q % 2 = 0 THEN q ELSE q + 1

\* faulty variant: the percentage is printed as a whole number, without ".0"
PctChars_Integer(t) == IF t < 100 THEN 1 ELSE IF t < 1000 THEN 2 ELSE 3

\* characters of str(label_pct)
PctChars(t) == IF t < 100 THEN 3 ELSE IF t < 1000 THEN 4 ELSE 5

\* the percentage is shown inside the segment, not in the outside label
ShowsPctInline(label_pct, cfg) ==
    label_pct >= 10 * cfg.outside_label_with_inner_pct_threshold

\* faulty variant: the outside label decides at 10%, as the segment loop's
\* comments say, while the segment decides at the configured threshold
LabelText_TenPercent(o, label_pct, cfg) ==
    IF label_pct >= 100
    THEN Text(NameAscii(o), NameWide(o), NoPct)
    ELSE Text(NameAscii(o) + 2 + PctChars(label_pct), NameWide(o), <<label_pct>>)

\* the outside label's text: the name, or "<name> <pct>%" (escape_html leaves
\* a label of letters as it is)
LabelText(o, label_pct, cfg) ==
    IF ShowsPctInline(label_pct, cfg)
    THEN Text(NameAscii(o), NameWide(o), NoPct)
    ELSE Text(NameAscii(o) + 2 + PctChars(label_pct), NameWide(o), <<label_pct>>)

\* faulty variant: the planner's left_pos runs past the option's own segment
RECURSIVE LeftPos_PastOwnSegment(_, _, _)
LeftPos_PastOwnSegment(ord, adjusted, o) ==
    IF ord = <<>> THEN <<0, 1>>
    ELSE IF ord[1] = o THEN (IF o \in DOMAIN adjusted THEN adjusted[o] ELSE <<0, 1>>)
    ELSE RAdd(IF ord[1] \in DOMAIN adjusted THEN adjusted[ord[1]] ELSE <<0, 1>>,
              LeftPos_PastOwnSegment(Tail(ord), adjusted, o))

\* the planner's left_pos of option o: the widths of the options before it
RECURSIVE LeftPos(_, _, _)
LeftPos(ord, adjusted, o) ==
    IF ord = <<>> \/ ord[1] = o THEN <<0, 1>>
    ELSE RAdd(IF ord[1] \in DOMAIN adjusted THEN adjusted[ord[1]] ELSE <<0, 1>>,
              LeftPos(Tail(ord), adjusted, o))

\* step 5: label_data
LabelData(c, ord, S, adjusted, outside, cfg) ==
    [i \in 1..Len(outside) |->
        LET o == outside[i]
            center_pos == RAdd(LeftPos(ord, adjusted, o),
                               RHalf(IF o \in DOMAIN adjusted THEN adjusted[o] ELSE <<0, 1>>))
        IN  Label(center_pos, LabelText(o, LabelPct(Get(c, o), S), cfg), o)]

\* a label placed in a lane: layer 1, and a leader line only beyond layer 1
Placed(l, layer_num) ==
    [pos |-> l.pos, text |-> l.text, option |-> l.option,
     layer |-> layer_num, hasLeaderLine |-> layer_num > 1]

\* faulty variant: the top lane takes the larger half
TopLane_LargerHalf(adjusted_label_data) ==
    [i \in 1..((Len(adjusted_label_data) + 1) \div 2) |-> Placed(adjusted_label_data[i], 1)]

\* the first half of the positioned labels, by index
TopLane(adjusted_label_data) ==
    [i \in 1..(Len(adjusted_label_data) \div 2) |-> Placed(adjusted_label_data[i], 1)]

\* the second half
BottomLane(adjusted_label_data) ==
    LET h == Len(adjusted_label_data) \div 2
    IN  [i \in 1..(Len(adjusted_label_data) - h) |-> Placed(adjusted_label_data[h + i], 1)]

\* faulty variant: the running left offset is advanced before the segment is emitted
RECURSIVE Segments_AdvanceFirst(_, _, _, _, _, _, _, _)
Segments_AdvanceFirst(ord, i, left, c, S, adjusted, inside, cfg) ==
    IF i > Len(ord) THEN <<>>
    ELSE LET o == ord[i]
         IN  IF o \notin DOMAIN adjusted
             THEN Segments_AdvanceFirst(ord, i + 1, left, c, S, adjusted, inside, cfg)
             ELSE <<[option |-> o, count |-> Get(c, o),
                     left |-> RAdd(left, adjusted[o]), width |-> adjusted[o],
                     labelPct |-> LabelPct(Get(c, o), S),
                     labelMode |-> "inside"]>>
                  \o Segments_AdvanceFirst(ord, i + 1, RAdd(left, adjusted[o]), c, S,
                                           adjusted, inside, cfg)

\* step 6: the segments, walking `order` with the running left offset
RECURSIVE Segments(_, _, _, _, _, _, _, _)
Segments(ord, i, left, c, S, adjusted, inside, cfg) ==
    IF i > Len(ord) THEN <<>>
    ELSE LET o == ord[i]
         IN  IF o \notin DOMAIN adjusted
             THEN Segments(ord, i + 1, left, c, S, adjusted, inside, cfg)
             ELSE LET w == adjusted[o]
                      label_pct == LabelPct(Get(c, o), S)
                      seg == [option |-> o,
                              count |-> Get(c, o),
                              left |-> left,
                              width |-> w,
                              labelPct |-> label_pct,
                              labelMode |->
                                  IF o \in Range(inside) THEN "inside"
                                  ELSE IF ShowsPctInline(label_pct, cfg)
                                       THEN "outside-inline-pct"
                                       ELSE "outside-hidden"]
                  IN  <<seg>> \o Segments(ord, i + 1, RAdd(left, w), c, S,
                                          adjusted, inside, cfg)

\* the text of the segment's seg-label span: "<name> <pct>%" inside, "<pct>%"
\* for a narrow segment that shows its percentage, no span otherwise
NoSegLabel == Text(0, 0, NoPct)

SegLabelText(seg) ==
    IF seg.labelMode = "inside"
    THEN Text(NameAscii(seg.option) + 2 + PctChars(seg.labelPct), NameWide(seg.option),
              <<seg.labelPct>>)
    ELSE IF seg.labelMode = "outside-inline-pct"
    THEN Text(PctChars(seg.labelPct) + 1, 0, <<seg.labelPct>>)
    ELSE NoSegLabel

\* the return value for S == 0: the empty string
EmptyLayout == [kind |-> "empty", S |-> 0, segs |-> <<>>, top |-> <<>>, bottom |-> <<>>]

\* a division by S == 0 raises ZeroDivisionError
RaisedLayout == [kind |-> "ZeroDivisionError", S |-> 0, segs |-> <<>>, top |-> <<>>, bottom |-> <<>>]

\* steps 1 to 7
BarLayout(c, ord, cfg) ==
    LET S == SumValues(c)
        divides == \E o \in Range(ord) : Get(c, o) > 0
    IN  IF S = 0 /\ divides THEN RaisedLayout
        ELSE
        LET actual_widths == ActualWidths(c, ord, S)
            outside_labels == OutsideLabels(actual_widths, ord, cfg)
            inside_segments == InsideSegments(actual_widths, ord, cfg)
            adjusted_widths == AdjustedWidths(actual_widths, inside_segments, cfg)
            label_data == LabelData(c, ord, S, adjusted_widths, outside_labels, cfg)
            adjusted_label_data == CalculateFlexboxPositions(label_data, AvailableWidthPercent)
        IN  [kind |-> IF outside_labels # <<>> THEN "bar-container" ELSE "bar-row",
             S |-> S,
             segs |-> Segments(ord, 1, <<0, 1>>, c, S, adjusted_widths, inside_segments, cfg),
             top |-> TopLane(adjusted_label_data),
             bottom |-> BottomLane(adjusted_label_data)]

\* label_data as calculate_outside_labels_html builds it (none for S == 0 or
\* without outside labels)
PlannedLabelData(c, ord, cfg) ==
    IF SumValues(c) = 0 THEN <<>>
    ELSE LET actual_widths == ActualWidths(c, ord, SumValues(c))
             inside_segments == InsideSegments(actual_widths, ord, cfg)
         IN  LabelData(c, ord, SumValues(c),
                       AdjustedWidths(actual_widths, inside_segments, cfg),
                       OutsideLabels(actual_widths, ord, cfg), cfg)

\* faulty variant: the S == 0 guard is missing
RenderStackedBar_NoGuard(c, ord, cfg) == BarLayout(c, ord, cfg)

RenderStackedBar(c, ord, cfg) ==
    IF SumValues(c) = 0 THEN EmptyLayout ELSE BarLayout(c, ord, cfg)

---------------------------------------------------------------------------
(* order_options_by_overall *)

\* pct_val of the sort key
PctVal(c, S_overall, o) == IF S_overall = 0 THEN <<0, 1>> ELSE R(c[o], S_overall)

\* faulty variant: the key lacks the "Other last" component
KeyLess_NoOtherFlag(c, S_overall, a, b) ==
    \/ RLt(PctVal(c, S_overall, b), PctVal(c, S_overall, a))
    \/ PctVal(c, S_overall, a) = PctVal(c, S_overall, b) /\ a < b

\* key(a) < key(b) for key(o) = (1 if o == "Other" else 0, -pct_val, o)
KeyLess(c, S_overall, a, b) ==
    LET fa == IF a = Other THEN 1 ELSE 0
        fb == IF b = Other THEN 1 ELSE 0
    IN  \/ fa < fb
        \/ fa = fb /\ RLt(PctVal(c, S_overall, b), PctVal(c, S_overall, a))
        \/ fa = fb /\ PctVal(c, S_overall, a) = PctVal(c, S_overall, b) /\ a < b

\* sorted(opts, key=key): the keys are pairwise different, so the least one first
RECURSIVE SortedByKey(_, _, _)
SortedByKey(c, S_overall, opts) ==
    IF opts = {} THEN <<>>
    ELSE LET m == CHOOSE x \in opts : \A y \in opts \ {x} : KeyLess(c, S_overall, x, y)
         IN  <<m>> \o SortedByKey(c, S_overall, opts \ {m})

OrderOptionsByOverall(c, S_overall) == SortedByKey(c, S_overall, DOMAIN c)

---------------------------------------------------------------------------
(* color_map_for_options *)

Palette ==
    << "#4c8bf5", "#f58b4c", "#57b26a", "#9166cc", "#e04f5f",
       "#39c0cf", "#f2c94c", "#7f8c8d", "#2ecc71", "#e67e22",
       "#9b59b6", "#1abc9c", "#e84393", "#0984e3", "#6c5ce7" >>

OtherColor == "#b5b5b5"

\* the last place of o in the list s: a later assignment overwrites an earlier one
LastIndexOf(s, o) == CHOOSE i \in 1..Len(s) : s[i] = o /\ \A j \in (i + 1)..Len(s) : s[j] # o

\* faulty variant: the palette index counts the sentinel's place too
ColorMapForOptions_CountsOther(options) ==
    [o \in Range(options) |->
        IF o = Other THEN OtherColor
        ELSE Palette[((LastIndexOf(options, o) - 1) % Len(Palette)) + 1]]

ColorMapForOptions(options) ==
    LET base == SelectSeq(options, LAMBDA o : o # Other)
    IN  [o \in Range(options) |->
            IF o = Other THEN OtherColor
            ELSE Palette[((LastIndexOf(base, o) - 1) % Len(Palette)) + 1]]

---------------------------------------------------------------------------
(* Values a call has not produced yet *)

DefaultConfig ==
    [min_segment_width_pct |-> 1,
     outside_label_threshold_pct |-> 24,
     outside_label_with_inner_pct_threshold |-> 5]

NoLayout == [kind |-> "none"]

\* a missing cell (NaN), and a cell holding the text s
NaNCell == [isna |-> TRUE, s |-> <<>>]
CellOf(s) == [isna |-> FALSE, s |-> s]

\* no cell read, no frame aggregated, no bar drawn
IdleRows ==
    /\ cell = NaNCell
    /\ chosen = {}
    /\ frame = <<>>
    /\ S_sum = 0
    /\ row = 0
    /\ bars = <<>>

\* None, and a value holding the text s
NoChoice == [none |-> TRUE, s |-> <<>>]
Choice(s) == [none |-> FALSE, s |-> s]

\* choice_mapping: None, a dict from configured choice to option, or a list
NoMapping == [kind |-> "none", d |-> <<>>, l |-> <<>>]
DictMapping(d) == [kind |-> "dict", d |-> d, l |-> <<>>]
ListMapping(l) == [kind |-> "list", d |-> <<>>, l |-> l]

\* yaml_choices: None, or a list of texts
NoList == [none |-> TRUE, l |-> <<>>]
ListOf(l) == [none |-> FALSE, l |-> l]

\* no choice resolved, an empty history
IdleTools ==
    /\ yaml_choice = <<>>
    /\ choice_mapping = NoMapping
    /\ actual_choices = {}
    /\ yaml_choices = NoList
    /\ matched_choice = NoChoice
    /\ hist = <<>>
    /\ pushed = <<>>

---------------------------------------------------------------------------
(* Specification of calculate_flexbox_positions on candidate lists *)

\* original centers in [0, 100]
CenterValues == {<<0, 1>>, <<3, 2>>, <<50, 1>>, <<197, 2>>, <<100, 1>>}

\* "A", "X 1.0%", a label of twelve full-width characters
ShortTexts == {Text(1, 0, NoPct), Text(6, 0, <<10>>), Text(0, 12, NoPct)}

\* a label of 130 full-width characters
LongText == Text(0, 130, NoPct)

\* candidate lists: one candidate per option, in any order of centers
InitFlexWith(texts) ==
    /\ \E n \in 0..MaxLabels : \E f \in [1..n -> CenterValues \X texts] :
           labels_data = [i \in 1..n |-> Label(f[i][1], f[i][2], i)]
    /\ positions = <<>>
    /\ counts = <<>>
    /\ order = <<>>
    /\ config = DefaultConfig
    /\ layout = NoLayout
    /\ cmap = <<>>
    /\ pc = "ready"
    /\ IdleRows
    /\ IdleTools

InitFlex == InitFlexWith(ShortTexts)

InitFlexAny == InitFlexWith(ShortTexts \cup {LongText})

CallFlexbox ==
    /\ pc = "ready"
    /\ positions' = CalculateFlexboxPositions(labels_data, AvailableWidthPercent)
    /\ pc' = "done"
    /\ UNCHANGED <<counts, order, config, layout, labels_data, cmap>>
    /\ UNCHANGED rowVars
    /\ UNCHANGED toolVars

NextFlex == CallFlexbox

SpecFlex == InitFlex /\ [][NextFlex]_vars

SpecFlexAny == InitFlexAny /\ [][NextFlex]_vars

\* the returned position of the candidate of option o
PosOf(o) == (CHOOSE l \in Range(positions) : l.option = o).pos

\* the extents [pos - width/2, pos + width/2] of two labels share more than a point
ExtentsOverlap(l1, l2) ==
    /\ RLt(LeftEdge(l1), RightEdge(l2))
    /\ RLt(LeftEdge(l2), RightEdge(l1))

\* some pair of candidates is closer than the 2.0-point margin
WithinMargin(ld) ==
    \E i, j \in 1..Len(ld) :
        /\ i # j
        /\ RLt(LeftEdge(ld[j]), RAdd(RightEdge(ld[i]), RInt(2)))
        /\ RLt(LeftEdge(ld[i]), RAdd(RightEdge(ld[j]), RInt(2)))

\* C5: calculate_flexbox_positions never returns a position outside [0, 100],
\* whatever the label texts, when the original centers lie in [0, 100].
C5_PositionsInBounds ==
    pc = "done" =>
        \A i \in 1..Len(positions) :
            /\ RLe(RInt(0), positions[i].pos)
            /\ RLe(positions[i].pos, RInt(100))

\* C6: calculate_flexbox_positions never reorders: a candidate with a smaller
\* original center is never returned right of one with a larger center.
C6_OrderPreserved ==
    pc = "done" =>
        \A i, j \in 1..Len(labels_data) :
            RLt(labels_data[i].pos, labels_data[j].pos)
                => RLe(PosOf(labels_data[i].option), PosOf(labels_data[j].option))

\* C7: when candidates overlap, the result has no two labels whose estimated
\* extents overlap.
C7_OverlapResolved ==
    (pc = "done" /\ Len(labels_data) >= 2 /\ WithinMargin(labels_data)) =>
        \A i, j \in 1..Len(positions) :
            i # j => ~ExtentsOverlap(positions[i], positions[j])

\* C8: with zero or one candidate, or when no pair of candidates is within the
\* 2.0-point margin, every returned position is the original center and the
\* candidates are returned in input order.
C8_UntouchedUnlessNeeded ==
    (pc = "done" /\ (Len(labels_data) <= 1 \/ ~WithinMargin(labels_data))) =>
        /\ Len(positions) = Len(labels_data)
        /\ \A i \in 1..Len(labels_data) :
              /\ positions[i].pos = labels_data[i].pos
              /\ positions[i].option = labels_data[i].option
              /\ positions[i].text = labels_data[i].text

\* C8's case: several candidates, given out of center order, none near another,
\* the leftmost one closer to the left boundary than half its width
C8_Witness ==
    /\ pc = "done"
    /\ Len(labels_data) >= 2
    /\ ~WithinMargin(labels_data)
    /\ \E i \in 1..(Len(labels_data) - 1) :
           RLt(labels_data[i + 1].pos, labels_data[i].pos)
    /\ \E i \in 1..Len(labels_data) : RLt(labels_data[i].pos, RHalf(LabelWidth(labels_data[i])))
    /\ positions = labels_data

\* the candidate that the i-th returned label was made from
OriginalOf(i) == labels_data[positions[i].option]

\* C22: on the overlap path the returned labels are the candidates in ascending
\* original center (equal centers in input order); the first stands at
\* max(width/2, center), with no right clamp; each later one at
\* max(center, previous position + previous width/2 + width/2 + margin), or at
\* 100 - width/2 when that would end beyond 100; every width is the one
\* estimated for the label's own text.
C22_OverlapWalk ==
    (pc = "done" /\ Len(labels_data) >= 2 /\ WithinMargin(labels_data)) =>
        /\ Len(positions) = Len(labels_data)
        /\ {positions[i].option : i \in 1..Len(positions)} = 1..Len(labels_data)
        /\ \A i \in 1..Len(positions) :
              LET c == OriginalOf(i).pos
                  w == EstimateLabelWidthPercent(OriginalOf(i).text, BarWidthPx)
              IN  /\ positions[i].text = OriginalOf(i).text
                  /\ \A j \in (i + 1)..Len(positions) :
                        \/ RLt(c, OriginalOf(j).pos)
                        \/ /\ c = OriginalOf(j).pos
                           /\ positions[i].option < positions[j].option
                  /\ i = 1 => positions[i].pos = RMax(RHalf(w), c)
                  /\ i > 1 =>
                        LET pw == EstimateLabelWidthPercent(OriginalOf(i - 1).text, BarWidthPx)
                            p == RMax(c, RAdd(RAdd(positions[i - 1].pos, RHalf(pw)),
                                              RAdd(RHalf(w), RInt(OverlapMargin))))
                        IN  positions[i].pos =
                                IF RLt(RInt(100), RAdd(p, RHalf(w)))
                                THEN RSub(RInt(100), RHalf(w))
                                ELSE p

\* C22's case: candidates with different texts, given out of center order; the
\* first is pushed right to width/2, a middle one is pushed past the one before
\* it, and the last is pulled back to 100 - width/2
C22_Witness ==
    /\ pc = "done"
    /\ Len(labels_data) = 3
    /\ WithinMargin(labels_data)
    /\ positions[1].option # 1
    /\ positions[1].text # positions[2].text
    /\ RLt(OriginalOf(1).pos, positions[1].pos)
    /\ RLt(OriginalOf(2).pos, positions[2].pos)
    /\ RLt(RAdd(positions[2].pos, RHalf(LabelWidth(positions[2]))), RInt(100))
    /\ positions[3].pos = RSub(RInt(100), RHalf(LabelWidth(positions[3])))
    /\ RLt(positions[3].pos, OriginalOf(3).pos)

---------------------------------------------------------------------------
(* Specification of render_stacked_bar on the counts of one group *)

\* counts a group can have: small ones, and those of a hundred respondents
CountValues == (0..MaxCount) \cup {4, 20, 76, 98}

\* the lists of distinct options of length n
RECURSIVE DistinctSeqs(_)
DistinctSeqs(n) ==
    IF n = 0 THEN {<<>>}
    ELSE UNION { {Append(s, o) : o \in Opts \ Range(s)} : s \in DistinctSeqs(n - 1) }

Orders == UNION {DistinctSeqs(n) : n \in 0..NumOptions}

\* counts has exactly the options of `order` as keys (aggregate_group)
InitBar ==
    /\ order \in Orders
    /\ counts \in [Range(order) -> CountValues]
    /\ config = DefaultConfig
    /\ layout = NoLayout
    /\ labels_data = <<>>
    /\ positions = <<>>
    /\ cmap = <<>>
    /\ pc = "ready"
    /\ IdleRows
    /\ IdleTools

CallRenderStackedBar ==
    /\ pc = "ready"
    /\ layout' = RenderStackedBar(counts, order, config)
    /\ pc' = "done"
    /\ UNCHANGED <<counts, order, config, labels_data, positions, cmap>>
    /\ UNCHANGED rowVars
    /\ UNCHANGED toolVars

NextBar == CallRenderStackedBar

SpecBar == InitBar /\ [][NextBar]_vars

\* the segment of option o in the layout
SegsOf(o) == {i \in 1..Len(layout.segs) : layout.segs[i].option = o}

\* the options with a count above zero, in the order of `order`
Chosen == SelectSeq(order, LAMBDA o : counts[o] > 0)

\* C1: for counts with S > 0 the adjusted widths of the segments, one per option
\* with count > 0, sum to 100.
C1_WidthsSumTo100 ==
    (pc = "done" /\ SumValues(counts) > 0) =>
        RSum([i \in 1..Len(layout.segs) |-> layout.segs[i].width]) = <<100, 1>>

\* C1's case: a bar of three segments, some labelled inside and some outside
C1_Witness ==
    /\ pc = "done"
    /\ SumValues(counts) > 0
    /\ Len(layout.segs) >= 3
    /\ \E i \in 1..Len(layout.segs) : layout.segs[i].labelMode = "inside"
    /\ \E i \in 1..Len(layout.segs) : layout.segs[i].labelMode = "outside-hidden"
    /\ RSum([i \in 1..Len(layout.segs) |-> layout.segs[i].width]) = <<100, 1>>

\* C2: the first emitted segment starts at 0, each later one starts where the
\* previous one ends, the left offsets increase, and the segments follow
\* `order` with the zero-count options skipped.
C2_LeftOffsetsContiguous ==
    (pc = "done" /\ SumValues(counts) > 0) =>
        /\ layout.segs[1].left = <<0, 1>>
        /\ \A i \in 1..(Len(layout.segs) - 1) :
              /\ layout.segs[i + 1].left = RAdd(layout.segs[i].left, layout.segs[i].width)
              /\ RLt(layout.segs[i].left, layout.segs[i + 1].left)
        /\ [i \in 1..Len(layout.segs) |-> layout.segs[i].option] = Chosen

\* C2's case: three segments emitted around a skipped zero-count option
C2_Witness ==
    /\ pc = "done"
    /\ Len(layout.segs) >= 2
    /\ Len(order) > Len(layout.segs)
    /\ counts[order[1]] = 0
    /\ layout.segs[1].left = <<0, 1>>
    /\ layout.segs[2].left = layout.segs[1].width

\* C3: for counts with S > 0 every option with count > 0 has exactly one
\* segment, and no option with count 0 has one.
C3_OneSegmentPerChosenOption ==
    (pc = "done" /\ SumValues(counts) > 0) =>
        /\ \A o \in DOMAIN counts :
              Cardinality(SegsOf(o)) = (IF counts[o] > 0 THEN 1 ELSE 0)
        /\ \A i \in 1..Len(layout.segs) : layout.segs[i].option \in DOMAIN counts

\* C3's case: a bar for counts with a chosen and an unchosen option
C3_Witness ==
    /\ pc = "done"
    /\ SumValues(counts) > 0
    /\ \E o \in DOMAIN counts : counts[o] = 0 /\ SegsOf(o) = {}
    /\ \E o \in DOMAIN counts : counts[o] > 0 /\ Cardinality(SegsOf(o)) = 1

\* C4: for S == 0 (all counts zero, or no counts) render_stacked_bar returns
\* the empty layout, with no segment and no label, and nothing is raised.
C4_EmptyLayoutWhenNoSelections ==
    (pc = "done" /\ SumValues(counts) = 0) =>
        /\ layout.kind = "empty"
        /\ layout.segs = <<>>
        /\ layout.top = <<>>
        /\ layout.bottom = <<>>

\* C4's case: several options, all with count zero
C4_Witness ==
    /\ pc = "done"
    /\ Len(order) >= 2
    /\ \A o \in DOMAIN counts : counts[o] = 0
    /\ layout.kind = "empty"

\* the outside labels of option o, in either lane
OutsideLabelsOf(o) ==
    {l \in Range(layout.top) \cup Range(layout.bottom) : l.option = o}

---------------------------------------------------------------------------
(* Specification of render_stacked_bar on the scenario counts: options with *)
(* one-letter names, counts that give shares of 1, 4, 20, 24, 76 and 98%    *)

ScenarioOptions == {1, 3, 4}
ScenarioCounts == {1, 4, 20, 24, 72, 76, 98}

RECURSIVE ScenarioSeqs(_)
ScenarioSeqs(n) ==
    IF n = 0 THEN {<<>>}
    ELSE UNION { {Append(s, o) : o \in ScenarioOptions \ Range(s)} : s \in ScenarioSeqs(n - 1) }

InitScenario ==
    /\ \E n \in 1..Cardinality(ScenarioOptions) : order \in ScenarioSeqs(n)
    /\ counts \in [Range(order) -> ScenarioCounts]
    /\ config = DefaultConfig
    /\ layout = NoLayout
    /\ labels_data = <<>>
    /\ positions = <<>>
    /\ cmap = <<>>
    /\ pc = "ready"
    /\ IdleRows
    /\ IdleTools

SpecScenario == InitScenario /\ [][NextBar]_vars

\* the segment of option o
SegOf(o) == layout.segs[CHOOSE i \in 1..Len(layout.segs) : layout.segs[i].option = o]

\* the actual width of option o, 100 * c / S
ActualWidthOf(o) == R(100 * counts[o], SumValues(counts))

\* C15: an option is labelled inside exactly when its actual width is at least
\* the threshold 24.0, a width of exactly 24.0 included; it has an outside
\* label exactly when its actual width is strictly below the threshold.
C15_ThresholdInclusive ==
    pc = "done" =>
        \A o \in DOMAIN counts :
            /\ SegOf(o).labelMode = "inside"
                  <=> RLe(RInt(config.outside_label_threshold_pct), ActualWidthOf(o))
            /\ OutsideLabelsOf(o) # {}
                  <=> RLt(ActualWidthOf(o), RInt(config.outside_label_threshold_pct))

\* C15's case: an option at exactly 24.0% labelled inside, next to a narrow one
C15_Witness ==
    /\ pc = "done"
    /\ \E o, n \in DOMAIN counts :
          /\ ActualWidthOf(o) = <<24, 1>>
          /\ SegOf(o).labelMode = "inside"
          /\ OutsideLabelsOf(o) = {}
          /\ RLt(ActualWidthOf(n), <<24, 1>>)
          /\ SegOf(n).labelMode # "inside"
          /\ OutsideLabelsOf(n) # {}

\* the option at place i of `order` stands directly before the one at place j
Adjacent(x, y) == \E i \in 1..(Len(order) - 1) : order[i] = x /\ order[i + 1] = y

\* the outside label of o, put back on the center of o's segment
AtSegmentCenter(o) ==
    LET l == CHOOSE m \in OutsideLabelsOf(o) : TRUE
    IN  Label(RAdd(SegOf(o).left, RHalf(SegOf(o).width)), l.text, o)

\* C18: for counts {X:1, Y:1, Z:98}, X next to Y, both are narrow with their
\* width left at 1%, their labels are within the collision margin, and the two
\* positions are distinct, do not overlap and keep the order of the centers.
C18_Scenario2LabelsSeparated ==
    \A x, y, z \in DOMAIN counts :
        (/\ pc = "done"
         /\ counts[x] = 1 /\ counts[y] = 1 /\ counts[z] = 98
         /\ Adjacent(x, y))
        => /\ SegOf(x).labelMode # "inside" /\ SegOf(y).labelMode # "inside"
           /\ SegOf(x).width = <<1, 1>> /\ SegOf(y).width = <<1, 1>>
           /\ WithinMargin(<<AtSegmentCenter(x), AtSegmentCenter(y)>>)
           /\ \A lx \in OutsideLabelsOf(x) : \A ly \in OutsideLabelsOf(y) :
                 /\ lx.pos # ly.pos
                 /\ ~ExtentsOverlap(lx, ly)
                 /\ RLt(lx.pos, ly.pos)

\* C19: for counts {A:76, B:20, C:4} the widths are 76, 20 and 4; A's segment
\* is labelled "A 76.0%"; B has the outside text "B" and its segment shows
\* "20.0%"; C has the outside text "C 4.0%" and its segment shows no label.
C19_Scenario1Labels ==
    \A a, b, c \in DOMAIN counts :
        (pc = "done" /\ counts[a] = 76 /\ counts[b] = 20 /\ counts[c] = 4) =>
            /\ SegOf(a).width = <<76, 1>>
            /\ SegOf(b).width = <<20, 1>>
            /\ SegOf(c).width = <<4, 1>>
            /\ SegOf(a).labelMode = "inside"
            /\ SegLabelText(SegOf(a)) = Text(NameAscii(a) + 6, NameWide(a), <<760>>)
            /\ OutsideLabelsOf(a) = {}
            /\ \A l \in OutsideLabelsOf(b) : l.text = Text(NameAscii(b), NameWide(b), NoPct)
            /\ OutsideLabelsOf(b) # {}
            /\ SegLabelText(SegOf(b)) = Text(5, 0, <<200>>)
            /\ \A l \in OutsideLabelsOf(c) :
                  l.text = Text(NameAscii(c) + 5, NameWide(c), <<40>>)
            /\ OutsideLabelsOf(c) # {}
            /\ SegLabelText(SegOf(c)) = NoSegLabel

\* C19's case: the scenario's bar, in the order the overall shares give
C19_Witness ==
    /\ pc = "done"
    /\ Len(order) = 3
    /\ counts[order[1]] = 76 /\ counts[order[2]] = 20 /\ counts[order[3]] = 4
    /\ Len(layout.segs) = 3
    /\ layout.kind = "bar-container"

\* C19 as the scenario words it: the percentages printed as "76%", "20%", "4%"
C19_Scenario1LabelsAsWritten ==
    \A a, b, c \in DOMAIN counts :
        (pc = "done" /\ counts[a] = 76 /\ counts[b] = 20 /\ counts[c] = 4) =>
            /\ SegOf(a).width = <<76, 1>>
            /\ SegOf(b).width = <<20, 1>>
            /\ SegOf(c).width = <<4, 1>>
            /\ SegOf(a).labelMode = "inside"
            /\ SegLabelText(SegOf(a)) = Text(NameAscii(a) + 4, NameWide(a), <<760>>)
            /\ \A l \in OutsideLabelsOf(b) : l.text = Text(NameAscii(b), NameWide(b), NoPct)
            /\ OutsideLabelsOf(b) # {}
            /\ SegLabelText(SegOf(b)) = Text(3, 0, <<200>>)
            /\ \A l \in OutsideLabelsOf(c) :
                  l.text = Text(NameAscii(c) + 3, NameWide(c), <<40>>)
            /\ OutsideLabelsOf(c) # {}
            /\ SegLabelText(SegOf(c)) = NoSegLabel

---------------------------------------------------------------------------
(* Specification of render_stacked_bar under configured thresholds *)

\* ComponentConfig values: the defaults, and floors above the label threshold
Configs ==
    {DefaultConfig,
     [min_segment_width_pct |-> 40,
      outside_label_threshold_pct |-> 24,
      outside_label_with_inner_pct_threshold |-> 5],
     [min_segment_width_pct |-> 30,
      outside_label_threshold_pct |-> 10,
      outside_label_with_inner_pct_threshold |-> 5]}

ConfiguredCounts == {0, 1, 2, 3, 7}

InitBarCfg ==
    /\ order \in Orders
    /\ counts \in [Range(order) -> ConfiguredCounts]
    /\ config \in Configs
    /\ layout = NoLayout
    /\ labels_data = <<>>
    /\ positions = <<>>
    /\ cmap = <<>>
    /\ pc = "ready"
    /\ IdleRows
    /\ IdleTools

SpecBarCfg == InitBarCfg /\ [][NextBar]_vars

\* the shortfall accumulated by the floor adjustment of the current counts
Shortfall ==
    LET aw == ActualWidths(counts, order, SumValues(counts))
    IN  AdjustmentNeeded(aw, InsideSegments(aw, order, config), config)

\* C20: whenever the floor adjustment has a shortfall > 0, under any configured
\* floor and threshold, the adjusted widths sum to exactly 100.
C20_ReductionRestores100 ==
    (pc = "done" /\ SumValues(counts) > 0 /\ RLt(<<0, 1>>, Shortfall)) =>
        RSum([i \in 1..Len(layout.segs) |-> layout.segs[i].width]) = <<100, 1>>

\* C21: the width of a narrow option's segment is never above the option's
\* actual width, also when that is below the floor; a segment wider than its
\* option's actual width belongs to a wide option and is exactly the floor.
C21_NarrowNeverFloored ==
    (pc = "done" /\ SumValues(counts) > 0) =>
        \A i \in 1..Len(layout.segs) :
            LET seg == layout.segs[i]
            IN  /\ seg.labelMode # "inside" => RLe(seg.width, ActualWidthOf(seg.option))
                /\ RLt(ActualWidthOf(seg.option), seg.width) =>
                       /\ seg.labelMode = "inside"
                       /\ seg.width = RInt(config.min_segment_width_pct)

\* C21's case: a narrow option below the floor keeps its width in a bar where
\* a wide option is bumped to the floor
C21_Witness ==
    /\ pc = "done"
    /\ \E i, j \in 1..Len(layout.segs) :
          /\ layout.segs[i].labelMode # "inside"
          /\ RLt(ActualWidthOf(layout.segs[i].option), RInt(config.min_segment_width_pct))
          /\ layout.segs[i].width = ActualWidthOf(layout.segs[i].option)
          /\ layout.segs[j].labelMode = "inside"
          /\ RLt(ActualWidthOf(layout.segs[j].option), layout.segs[j].width)

---------------------------------------------------------------------------
(* Specification of render_stacked_bar with its label planner's locals, on *)
(* bars of up to NumLaneOptions options                                    *)

\* the options 1..m in ascending or in descending order
LaneOrders ==
    UNION { { [k \in 1..m |-> k], [k \in 1..m |-> m + 1 - k] } : m \in 1..NumLaneOptions }

LaneCounts == {0, 1, 3}

InitLanes ==
    /\ order \in LaneOrders
    /\ counts \in [Range(order) -> LaneCounts]
    /\ config = DefaultConfig
    /\ layout = NoLayout
    /\ labels_data = <<>>
    /\ positions = <<>>
    /\ cmap = <<>>
    /\ pc = "ready"
    /\ IdleRows
    /\ IdleTools

\* render_stacked_bar, keeping label_data and adjusted_label_data
CallRenderStackedBarPlanned ==
    /\ pc = "ready"
    /\ layout' = RenderStackedBar(counts, order, config)
    /\ labels_data' = PlannedLabelData(counts, order, config)
    /\ positions' = CalculateFlexboxPositions(labels_data', AvailableWidthPercent)
    /\ pc' = "done"
    /\ UNCHANGED <<counts, order, config, cmap>>
    /\ UNCHANGED rowVars
    /\ UNCHANGED toolVars

NextLanes == CallRenderStackedBarPlanned

SpecLanes == InitLanes /\ [][NextLanes]_vars

\* a lane's labels as the planner positioned them
Unplaced(lane) == [i \in 1..Len(lane) |-> Label(lane[i].pos, lane[i].text, lane[i].option)]

C24_CenterInOwnSegment ==
    (pc = "done" /\ SumValues(counts) > 0) =>
        /\ Len(labels_data) =
               Cardinality({i \in 1..Len(layout.segs) : layout.segs[i].labelMode # "inside"})
        /\ \A k \in 1..Len(labels_data) :
              LET seg == SegOf(labels_data[k].option)
                  center == labels_data[k].pos
              IN  /\ seg.labelMode # "inside"
                  /\ center = RAdd(seg.left, RHalf(seg.width))
                  /\ RLe(seg.left, center)
                  /\ RLe(center, RAdd(seg.left, seg.width))
                  /\ RLe(RInt(0), center)
                  /\ RLe(center, RInt(100))

\* C24's case: a narrow option behind a skipped zero-count option and behind
\* other segments, its center strictly inside its own segment
C24_Witness ==
    /\ pc = "done"
    /\ \E k \in 1..Len(labels_data) :
          /\ RLt(RInt(0), SegOf(labels_data[k].option).left)
          /\ RLt(SegOf(labels_data[k].option).left, labels_data[k].pos)
          /\ \E i \in 1..Len(order) :
                /\ counts[order[i]] = 0
                /\ \E j \in (i + 1)..Len(order) : order[j] = labels_data[k].option

---------------------------------------------------------------------------
(* Specification of order_options_by_overall on the overall counts *)

InitOrder ==
    /\ \E D \in SUBSET Opts : counts \in [D -> CountValues]
    /\ order = <<>>
    /\ config = DefaultConfig
    /\ layout = NoLayout
    /\ labels_data = <<>>
    /\ positions = <<>>
    /\ cmap = <<>>
    /\ pc = "ready"
    /\ IdleRows
    /\ IdleTools

\* S_overall is aggregate_group's S, the sum of the counts
CallOrderOptions ==
    /\ pc = "ready"
    /\ order' = OrderOptionsByOverall(counts, SumValues(counts))
    /\ pc' = "done"
    /\ UNCHANGED <<counts, config, layout, labels_data, positions, cmap>>
    /\ UNCHANGED rowVars
    /\ UNCHANGED toolVars

NextOrder == CallOrderOptions

SpecOrder == InitOrder /\ [][NextOrder]_vars

\* C9: the result lists every option once, the "Other" sentinel last if present,
\* the others by descending share count/S, equal shares in ascending
\* lexicographic order.
C9_OrderByShareOtherLast ==
    pc = "done" =>
        /\ Len(order) = Cardinality(DOMAIN counts)
        /\ Range(order) = DOMAIN counts
        /\ Other \in DOMAIN counts => order[Len(order)] = Other
        /\ \A i, j \in 1..Len(order) :
              (i < j /\ order[i] # Other /\ order[j] # Other) =>
                  \/ counts[order[i]] > counts[order[j]]
                  \/ counts[order[i]] = counts[order[j]] /\ order[i] < order[j]

\* C9's case: the sentinel has the largest share and two other options tie
C9_Witness ==
    /\ pc = "done"
    /\ Len(order) >= 3
    /\ Other \in DOMAIN counts
    /\ \A o \in DOMAIN counts \ {Other} : counts[o] < counts[Other]
    /\ \E a, b \in DOMAIN counts \ {Other} : a # b /\ counts[a] = counts[b] /\ counts[a] > 0
    /\ order[Len(order)] = Other

---------------------------------------------------------------------------
(* Specification of color_map_for_options on option lists *)

\* the k-th option that is not the sentinel
NonOther(k) == IF k < Other THEN k ELSE k + 1

\* m options in ascending or descending order
Bases(m) == { [k \in 1..m |-> NonOther(k)], [k \in 1..m |-> NonOther(m + 1 - k)] }

\* the list s with x put at place p
InsertAt(s, p, x) == SubSeq(s, 1, p - 1) \o <<x>> \o SubSeq(s, p, Len(s))

\* option lists without the sentinel, or with it at any place
ColorOrders ==
    UNION { Bases(m) \cup { InsertAt(b, p, Other) : b \in Bases(m), p \in 1..(m + 1) } :
            m \in 0..MaxColorOptions }

InitColor ==
    /\ order \in ColorOrders
    /\ counts = <<>>
    /\ config = DefaultConfig
    /\ layout = NoLayout
    /\ labels_data = <<>>
    /\ positions = <<>>
    /\ cmap = <<>>
    /\ pc = "ready"
    /\ IdleRows
    /\ IdleTools

CallColorMap ==
    /\ pc = "ready"
    /\ cmap' = ColorMapForOptions(order)
    /\ pc' = "done"
    /\ UNCHANGED <<counts, order, config, layout, labels_data, positions>>
    /\ UNCHANGED rowVars
    /\ UNCHANGED toolVars

\* the same list is mapped a second time
CallColorMapAgain ==
    /\ pc = "done"
    /\ cmap' = ColorMapForOptions(order)
    /\ pc' = "again"
    /\ UNCHANGED <<counts, order, config, layout, labels_data, positions>>
    /\ UNCHANGED rowVars
    /\ UNCHANGED toolVars

NextColor == CallColorMap \/ CallColorMapAgain

SpecColor == InitColor /\ [][NextColor]_vars

\* the number of options other than the sentinel before place i
NonOtherBefore(i) == Cardinality({j \in 1..(i - 1) : order[j] # Other})

\* C10: after the first call and after a repeated call, the option at place i
\* of `order`, when not the sentinel, has the palette color at index (number of
\* non-sentinel options before it) mod 15, and the sentinel has the neutral color.
C10_PaletteByPosition ==
    pc \in {"done", "again"} =>
        /\ DOMAIN cmap = Range(order)
        /\ \A i \in 1..Len(order) :
              cmap[order[i]] =
                  IF order[i] = Other THEN "#b5b5b5"
                  ELSE Palette[(NonOtherBefore(i) % 15) + 1]

\* C10's case: the list is mapped again, the sentinel stands before other
\* options and the palette has wrapped around
C10_Witness ==
    /\ pc = "again"
    /\ Len(order) >= 17
    /\ order[3] = Other
    /\ cmap[order[17]] = Palette[1]
    /\ cmap[order[4]] = Palette[3]
    /\ cmap[Other] = OtherColor

---------------------------------------------------------------------------
(* cell_to_unique_set *)

\* A cell's text is a list of characters: an option's number stands for the
\* letters of its label, the others are the space and the two line breaks.
SP == 32
LF == 10
CR == 13

\* what str.strip() removes, and what re.split(r"[\r\n]+") splits at
Whitespace == {SP, LF, CR}
LineBreaks == {LF, CR}

RECURSIVE LStrip(_)
LStrip(s) == IF s # <<>> /\ s[1] \in Whitespace THEN LStrip(Tail(s)) ELSE s

RECURSIVE RStrip(_)
RStrip(s) ==
    IF s # <<>> /\ s[Len(s)] \in Whitespace THEN RStrip(SubSeq(s, 1, Len(s) - 1)) ELSE s

\* faulty variant: only the leading whitespace is removed
Strip_LeadingOnly(s) == LStrip(s)

\* str.strip()
Strip(s) == RStrip(LStrip(s))

RECURSIVE SkipBreaks(_)
SkipBreaks(s) == IF s # <<>> /\ s[1] \in LineBreaks THEN SkipBreaks(Tail(s)) ELSE s

\* re.split(r"[\r\n]+", s), with cur the piece read so far: a run of line
\* breaks ends a piece, also an empty one at either end of the text
RECURSIVE SplitFrom(_, _)
SplitFrom(s, cur) ==
    IF s = <<>> THEN <<cur>>
    ELSE IF s[1] \in LineBreaks THEN <<cur>> \o SplitFrom(SkipBreaks(Tail(s)), <<>>)
    ELSE SplitFrom(Tail(s), Append(cur, s[1]))

SplitLines(s) == SplitFrom(s, <<>>)

\* the list uniq: the trimmed non-empty pieces, each at its first occurrence
RECURSIVE UniqueFragments(_, _)
UniqueFragments(parts, uniq) ==
    IF parts = <<>> THEN uniq
    ELSE LET t == Strip(parts[1])
         IN  IF t = <<>> \/ t \in Range(uniq)
             THEN UniqueFragments(Tail(parts), uniq)
             ELSE UniqueFragments(Tail(parts), Append(uniq, t))

CellToUniqueSet(val) ==
    IF val.isna THEN {}
    ELSE LET s == Strip(val.s)
         IN  IF s = <<>> THEN {}
             ELSE Range(UniqueFragments(SplitLines(s), <<>>))

---------------------------------------------------------------------------
(* Specification of cell_to_unique_set on cells *)

CellChars == Opts \cup {SP, LF, CR}

InitCell ==
    /\ \/ cell = NaNCell
       \/ \E n \in 0..MaxCellLen : \E f \in [1..n -> CellChars] : cell = CellOf(f)
    /\ chosen = {}
    /\ frame = <<>>
    /\ S_sum = 0
    /\ row = 0
    /\ bars = <<>>
    /\ counts = <<>>
    /\ order = <<>>
    /\ config = DefaultConfig
    /\ layout = NoLayout
    /\ labels_data = <<>>
    /\ positions = <<>>
    /\ cmap = <<>>
    /\ pc = "ready"
    /\ IdleTools

CallCellToUniqueSet ==
    /\ pc = "ready"
    /\ chosen' = CellToUniqueSet(cell)
    /\ pc' = "done"
    /\ UNCHANGED <<counts, order, config, layout, labels_data, positions, cmap>>
    /\ UNCHANGED <<cell, frame, S_sum, row, bars>>
    /\ UNCHANGED toolVars

NextCell == CallCellToUniqueSet

SpecCell == InitCell /\ [][NextCell]_vars

\* the cell is missing, or its text has nothing but whitespace
IsBlank(val) == val.isna \/ \A i \in DOMAIN val.s : val.s[i] \in Whitespace

\* places a..b of s hold a line's text without the whitespace around it: no
\* line break inside, no whitespace at either end, and only whitespace between
\* it and the line breaks (or text ends) around it
IsTrimmedLine(s, a, b) ==
    /\ a <= b
    /\ \A k \in a..b : s[k] \notin LineBreaks
    /\ s[a] \notin Whitespace
    /\ s[b] \notin Whitespace
    /\ \A k \in 1..(a - 1) :
          (\A m \in k..(a - 1) : s[m] \notin LineBreaks) => s[k] \in Whitespace
    /\ \A k \in (b + 1)..Len(s) :
          (\A m \in (b + 1)..k : s[m] \notin LineBreaks) => s[k] \in Whitespace

TrimmedLines(s) ==
    {SubSeq(s, a, b) : <<a, b>> \in {x \in (1..Len(s)) \X (1..Len(s)) : IsTrimmedLine(s, x[1], x[2])}}

\* C14: cell_to_unique_set returns the empty set for a missing or blank cell,
\* and otherwise the set of the cell's lines with the whitespace around them
\* removed, the empty ones left out; no element is empty or begins or ends
\* with whitespace.
C14_ChoiceSetIsTrimmedLines ==
    pc = "done" =>
        /\ IsBlank(cell) => chosen = {}
        /\ ~IsBlank(cell) => chosen = TrimmedLines(cell.s) /\ chosen # {}
        /\ \A f \in chosen :
              /\ f # <<>>
              /\ f[1] \notin Whitespace
              /\ f[Len(f)] \notin Whitespace

\* C14's case: a fragment repeated on two lines, with whitespace around it,
\* appears once
C14_Witness ==
    /\ pc = "done"
    /\ ~cell.isna
    /\ Cardinality(chosen) = 1
    /\ \E i, j, k \in DOMAIN cell.s :
          /\ i < j /\ j < k
          /\ cell.s[i] \in Opts
          /\ cell.s[k] = cell.s[i]
          /\ cell.s[j] \in LineBreaks
    /\ \E i \in DOMAIN cell.s : cell.s[i] = SP

---------------------------------------------------------------------------
(* aggregate_group *)

\* a row of a frame: the question's cell and the row's region and grade
Row(val, region, grade) == [cell |-> val, region_bucket |-> region, grade_2024 |-> grade]

\* the label of option o as it stands in a cell
OptionText(o) == <<o>>

\* faulty variant: the pieces of the cell are matched as they are split, untrimmed
ChosenIn_Untrimmed(val, options) ==
    {o \in Range(options) : ~val.isna /\ OptionText(o) \in Range(SplitLines(val.s))}

\* chosen = [o for o in cell_to_unique_set(v) if o in opt_set]
ChosenIn(val, options) ==
    {o \in Range(options) : OptionText(o) \in CellToUniqueSet(val)}

\* faulty variant: a chosen option is counted once for each of two lines
AddChosen_PerLine(c, ch) == [o \in DOMAIN c |-> IF o \in ch THEN c[o] + 2 ELSE c[o]]

\* for o in chosen: counts[o] += 1
AddChosen(c, ch) == [o \in DOMAIN c |-> IF o \in ch THEN c[o] + 1 ELSE c[o]]

\* faulty variant: S counts the rows, not the selections
AddToS_OnePerRow(S, ch) == S + 1

\* S += len(chosen)
AddToS(S, ch) == S + Cardinality(ch)

\* one pass of the loop body over the cell val; dropna() has taken out the
\* missing cells
AggregateStep(acc, val, options) ==
    IF val.isna THEN acc
    ELSE LET ch == ChosenIn(val, options)
         IN  IF ch = {} THEN acc
             ELSE [counts |-> AddChosen(acc.counts, ch), S |-> AddToS(acc.S, ch)]

RECURSIVE AggregateFrom(_, _, _, _)
AggregateFrom(fr, i, acc, options) ==
    IF i > Len(fr) THEN acc
    ELSE AggregateFrom(fr, i + 1, AggregateStep(acc, fr[i].cell, options), options)

\* counts, S of the frame fr
AggregateGroup(fr, options) ==
    AggregateFrom(fr, 1, [counts |-> [o \in Range(options) |-> 0], S |-> 0], options)

---------------------------------------------------------------------------
(* Specification of aggregate_group, one row of the frame at a time *)

\* option lists as get_question_options and order_options_by_overall give them
AggOptionLists == {<<1>>, <<3, 1>>, <<3, 1, Other>>}

\* cells of a column whose options are opts: missing, blank, one option, and
\* two lines (the same option twice, or two options) with whitespace around
AnswerCells(opts) ==
    {NaNCell, CellOf(<<SP>>)}
    \cup {CellOf(<<a>>) : a \in opts}
    \cup {CellOf(<<SP, x[1], CR, LF, x[2], SP>>) : x \in {y \in opts \X opts : y[1] <= y[2]}}

\* the state at the loop's entry: every count 0, S = 0
InitAgg ==
    /\ order \in AggOptionLists
    /\ \E n \in 0..MaxRows : \E f \in [1..n -> AnswerCells(Range(order))] :
          frame = [i \in 1..n |-> Row(f[i], 1, 1)]
    /\ counts = [o \in Range(order) |-> 0]
    /\ S_sum = 0
    /\ row = 1
    /\ cell = NaNCell
    /\ chosen = {}
    /\ bars = <<>>
    /\ config = DefaultConfig
    /\ layout = NoLayout
    /\ labels_data = <<>>
    /\ positions = <<>>
    /\ cmap = <<>>
    /\ pc = "loop"
    /\ IdleTools

AggregateRow ==
    /\ pc = "loop"
    /\ row <= Len(frame)
    /\ LET acc == AggregateStep([counts |-> counts, S |-> S_sum], frame[row].cell, order)
       IN  /\ counts' = acc.counts
           /\ S_sum' = acc.S
    /\ cell' = frame[row].cell
    /\ chosen' = ChosenIn(frame[row].cell, order)
    /\ row' = row + 1
    /\ UNCHANGED <<order, config, layout, labels_data, positions, cmap, frame, bars, pc>>
    /\ UNCHANGED toolVars

AggregateReturn ==
    /\ pc = "loop"
    /\ row > Len(frame)
    /\ pc' = "done"
    /\ UNCHANGED <<counts, order, config, layout, labels_data, positions, cmap>>
    /\ UNCHANGED rowVars
    /\ UNCHANGED toolVars

NextAgg == AggregateRow \/ AggregateReturn

SpecAgg == InitAgg /\ [][NextAgg]_vars

\* the ChoiceSet of the row the loop stands at, cut down to the option list
Matched ==
    CellToUniqueSet(frame[row].cell) \cap {OptionText(o) : o \in Range(order)}

\* C12: a row whose ChoiceSet shares nothing with the option list changes no
\* count and not S; any other row adds 1 to the count of each matched
\* option, leaves the other counts, and adds the number of matched options to S.
C12_RowContribution ==
    [][(pc = "loop" /\ row <= Len(frame)) =>
          IF Matched = {}
          THEN counts' = counts /\ S_sum' = S_sum
          ELSE /\ \A o \in Range(order) :
                     counts'[o] = counts[o] + (IF OptionText(o) \in Matched THEN 1 ELSE 0)
               /\ S_sum' = S_sum + Cardinality(Matched)]_vars

\* C12's case: a frame with a blank row, a one-option row and a two-option
\* row, aggregated to the end
C12_Witness ==
    /\ pc = "done"
    /\ \E i, j, k \in DOMAIN frame :
          /\ ~frame[i].cell.isna /\ CellToUniqueSet(frame[i].cell) = {}
          /\ Cardinality(CellToUniqueSet(frame[j].cell)) = 1
          /\ Cardinality(CellToUniqueSet(frame[k].cell)) = 2
    /\ S_sum = 3
    /\ \E o \in Range(order) : counts[o] = 2

\* every respondent of the frame chose at most one option
SingleSelect == \A i \in DOMAIN frame : Cardinality(CellToUniqueSet(frame[i].cell)) <= 1

\* the rows whose cell is neither missing nor blank
NonBlankRows == {i \in DOMAIN frame : ~IsBlank(frame[i].cell)}

\* C13: for a single-select question the returned S is the number of
\* non-blank respondents of the group.
C13_SingleSelectCountsRespondents ==
    (pc = "done" /\ SingleSelect) => S_sum = Cardinality(NonBlankRows)

\* C13's case: a single-select frame with a missing or blank row and two
\* answered ones, one of them with its option on two lines
C13_Witness ==
    /\ pc = "done"
    /\ SingleSelect
    /\ Len(frame) = MaxRows
    /\ \E i \in DOMAIN frame : IsBlank(frame[i].cell)
    /\ \E i \in DOMAIN frame : Len(frame[i].cell.s) > 1 /\ ~IsBlank(frame[i].cell)
    /\ S_sum = 2

\* the cell holds the same option on two of its lines
RepeatsOption(val) ==
    /\ ~val.isna
    /\ \E i, k \in DOMAIN val.s : i < k /\ val.s[i] \in Opts /\ val.s[k] = val.s[i]

\* C27: the returned S is the sum of the returned counts (the S that
\* render_stacked_bar recomputes from them), every count is at least 0, and no
\* count exceeds the number of rows of the frame, also when a cell repeats an
\* option on several lines.
C27_CountsSumToS ==
    pc = "done" =>
        /\ S_sum = SumValues(counts)
        /\ S_sum = RenderStackedBar(counts, order, config).S
        /\ \A o \in Range(order) : counts[o] >= 0 /\ counts[o] <= Len(frame)

\* C27's case: every row names the same option, one of them on two lines, and
\* another row names a second option as well
C27_Witness ==
    /\ pc = "done"
    /\ Len(frame) = MaxRows
    /\ \E i \in DOMAIN frame : RepeatsOption(frame[i].cell)
    /\ \E o \in Range(order) : counts[o] = Len(frame)
    /\ S_sum > Len(frame)

---------------------------------------------------------------------------
(* render_question_section: the overall bar and the region and grade bars *)

\* sorted(options, key=sort_key): dictionary order, the sentinel last
RECURSIVE SortedOptions(_)
SortedOptions(D) ==
    IF D = {} THEN <<>>
    ELSE IF D = {Other} THEN <<Other>>
    ELSE LET m == CHOOSE x \in D \ {Other} : \A y \in D \ {Other} : x <= y
         IN  <<m>> \o SortedOptions(D \ {m})

\* the options found in the question's column of the frame
GetQuestionOptions(fr) ==
    LET found == UNION {CellToUniqueSet(fr[i].cell) : i \in DOMAIN fr}
    IN  SortedOptions({o \in Opts : OptionText(o) \in found})

\* the grade values that take a respondent out of df_eff
ExcludedGrade == "excluded"

\* df.loc[~preschool_mask]
Effective(fr) == SelectSeq(fr, LAMBDA r : r.grade_2024 # ExcludedGrade)

RegionOrder == <<"region 1", "region 2">>
GradeOrder == <<"grade 1", "grade 2">>

\* [(lab, df_eff[df_eff[column] == lab]) for lab in labels]
Frames(fr, column, labels) ==
    [k \in 1..Len(labels) |->
        [name |-> labels[k], rows |-> SelectSeq(fr, LAMBDA r : r[column] = labels[k])]]

\* colors.get(o, '#999')
SegmentColor(colors, o) == IF o \in DOMAIN colors THEN colors[o] ELSE "#999"

\* the segments as they are drawn, each with its background color
ColoredSegments(segs, colors) ==
    [i \in 1..Len(segs) |->
        [option |-> segs[i].option,
         left |-> segs[i].left,
         width |-> segs[i].width,
         color |-> SegmentColor(colors, segs[i].option)]]

\* a drawn bar: its title, total and colored segments
Bar(name, c, ord, colors, cfg) ==
    [name |-> name,
     S |-> SumValues(c),
     segs |-> ColoredSegments(RenderStackedBar(c, ord, cfg).segs, colors)]

\* faulty variant: each group's bar is drawn in the dictionary order of the
\* options, with colors given along that order
RECURSIVE RenderGroupBars_SortedOptions(_, _, _, _)
RenderGroupBars_SortedOptions(frames, ord, colors, cfg) ==
    IF frames = <<>> THEN <<>>
    ELSE LET agg == AggregateGroup(frames[1].rows, ord)
             sorted == SortedOptions(Range(ord))
         IN  (IF agg.S > 0
              THEN <<Bar(frames[1].name, agg.counts, sorted, ColorMapForOptions(sorted), cfg)>>
              ELSE <<>>)
             \o RenderGroupBars_SortedOptions(Tail(frames), ord, colors, cfg)

\* faulty variant: a bar is drawn for every group, the empty ones too
RECURSIVE RenderGroupBars_KeepEmpty(_, _, _, _)
RenderGroupBars_KeepEmpty(frames, ord, colors, cfg) ==
    IF frames = <<>> THEN <<>>
    ELSE <<Bar(frames[1].name, AggregateGroup(frames[1].rows, ord).counts, ord, colors, cfg)>>
         \o RenderGroupBars_KeepEmpty(Tail(frames), ord, colors, cfg)

\* render_group_bars: one bar per frame with S > 0
RECURSIVE RenderGroupBars(_, _, _, _)
RenderGroupBars(frames, ord, colors, cfg) ==
    IF frames = <<>> THEN <<>>
    ELSE LET agg == AggregateGroup(frames[1].rows, ord)
         IN  (IF agg.S > 0
              THEN <<Bar(frames[1].name, agg.counts, ord, colors, cfg)>>
              ELSE <<>>)
             \o RenderGroupBars(Tail(frames), ord, colors, cfg)

\* the first loop of render_group_bars: the groups that get a bar
GroupsWithData(frames, ord) ==
    SelectSeq(frames, LAMBDA f : AggregateGroup(f.rows, ord).S > 0)

\* what render_group_bars returns: the heading, then either the "no data"
\* placeholder or the bars
RenderGroupBarsHtml(group_label, frames, ord, colors, cfg) ==
    IF GroupsWithData(frames, ord) = <<>>
    THEN [heading |-> group_label, placeholder |-> TRUE, inner |-> <<>>]
    ELSE [heading |-> group_label, placeholder |-> FALSE,
          inner |-> RenderGroupBars(frames, ord, colors, cfg)]

\* render_question_analysis: the overall bar when S_overall > 0, then the
\* region bars and the grade bars
QuestionAnalysis(overall_counts, S_overall, ord, colors, region_frames, grade_frames, cfg) ==
    (IF S_overall > 0 THEN <<Bar("overall", overall_counts, ord, colors, cfg)>> ELSE <<>>)
    \o RenderGroupBars(region_frames, ord, colors, cfg)
    \o RenderGroupBars(grade_frames, ord, colors, cfg)

---------------------------------------------------------------------------
(* Specification of render_question_section on small data frames *)

QuestionCells ==
    {CellOf(<<1>>), CellOf(<<3>>), CellOf(<<Other>>), CellOf(<<3, LF, 1>>)}

Respondents ==
    {Row(v, r, g) : v \in QuestionCells, r \in Range(RegionOrder),
                    g \in Range(GradeOrder) \cup {ExcludedGrade}}

InitQuestion ==
    /\ \E n \in 0..MaxRespondents : frame \in [1..n -> Respondents]
    /\ counts = <<>>
    /\ order = <<>>
    /\ cmap = <<>>
    /\ S_sum = 0
    /\ bars = <<>>
    /\ row = 0
    /\ cell = NaNCell
    /\ chosen = {}
    /\ config = DefaultConfig
    /\ layout = NoLayout
    /\ labels_data = <<>>
    /\ positions = <<>>
    /\ pc = "ready"
    /\ IdleTools

\* render_question_section: options, overall aggregation, order and colors
\* computed once, then the bars; without options the section has no bar
CallRenderQuestionSection ==
    /\ pc = "ready"
    /\ IF GetQuestionOptions(frame) = <<>>
       THEN /\ counts' = <<>>
            /\ S_sum' = 0
            /\ order' = <<>>
            /\ cmap' = <<>>
            /\ bars' = <<>>
       ELSE /\ counts' = AggregateGroup(Effective(frame), GetQuestionOptions(frame)).counts
            /\ S_sum' = AggregateGroup(Effective(frame), GetQuestionOptions(frame)).S
            /\ order' = OrderOptionsByOverall(counts', S_sum')
            /\ cmap' = ColorMapForOptions(order')
            /\ bars' = QuestionAnalysis(counts', S_sum', order', cmap',
                                        Frames(Effective(frame), "region_bucket", RegionOrder),
                                        Frames(Effective(frame), "grade_2024", GradeOrder),
                                        config)
    /\ pc' = "done"
    /\ UNCHANGED <<config, layout, labels_data, positions, cell, chosen, frame, row>>
    /\ UNCHANGED toolVars

NextQuestion == CallRenderQuestionSection

SpecQuestion == InitQuestion /\ [][NextQuestion]_vars

\* the place of option o among the segments of bar b (0: o has no segment)
PlaceIn(b, o) ==
    IF \E i \in 1..Len(b.segs) : b.segs[i].option = o
    THEN CHOOSE i \in 1..Len(b.segs) : b.segs[i].option = o
    ELSE 0

\* C11: the order and the colors of a question are those computed from the
\* overall counts; in every bar of the question the segments follow that
\* order and carry those colors, so any two bars agree on the relative order
\* of their common options and on each option's color.
C11_SameOrderAndColorsInEveryBar ==
    pc = "done" =>
        /\ \A k \in 1..Len(bars) : \A i, j \in 1..Len(bars[k].segs) :
              /\ i < j => \E m, n \in 1..Len(order) :
                              /\ m < n
                              /\ order[m] = bars[k].segs[i].option
                              /\ order[n] = bars[k].segs[j].option
              /\ bars[k].segs[i].option \in DOMAIN cmap
              /\ bars[k].segs[i].color = cmap[bars[k].segs[i].option]
        /\ \A k, l \in 1..Len(bars) : \A o, q \in Opts :
              (PlaceIn(bars[k], o) > 0 /\ PlaceIn(bars[l], o) > 0
               /\ PlaceIn(bars[k], q) > 0 /\ PlaceIn(bars[l], q) > 0) =>
                  /\ PlaceIn(bars[k], o) < PlaceIn(bars[k], q)
                        <=> PlaceIn(bars[l], o) < PlaceIn(bars[l], q)
                  /\ bars[k].segs[PlaceIn(bars[k], o)].color
                        = bars[l].segs[PlaceIn(bars[l], o)].color

\* C11's case: an overall bar, a region bar and a grade bar, a group bar with
\* two segments, and an overall order that is not the dictionary order
C11_Witness ==
    /\ pc = "done"
    /\ Len(bars) >= 3
    /\ bars[1].name = "overall"
    /\ Len(order) >= 2
    /\ order # SortedOptions(Range(order))
    /\ \E k \in 2..Len(bars) :
          /\ Len(bars[k].segs) >= 2
          /\ bars[k].segs[1].option = order[1]

---------------------------------------------------------------------------
(* Specification of render_group_bars on the frames of three groups *)

GroupLabels == <<"group 1", "group 2", "group 3">>

\* cells of the question's column: blank, or one of the options
GroupCells(opts) == {CellOf(<<SP>>)} \cup {CellOf(<<a>>) : a \in opts}

InitGroups ==
    /\ order \in AggOptionLists
    /\ \E n \in 0..MaxGroupRows :
          \E f \in [1..n -> GroupCells(Range(order)) \X Range(GroupLabels)] :
              frame = [i \in 1..n |-> Row(f[i][1], f[i][2], 1)]
    /\ cmap = ColorMapForOptions(order)
    /\ counts = <<>>
    /\ S_sum = 0
    /\ bars = <<>>
    /\ row = 0
    /\ cell = NaNCell
    /\ chosen = {}
    /\ config = DefaultConfig
    /\ layout = NoLayout
    /\ labels_data = <<>>
    /\ positions = <<>>
    /\ pc = "ready"
    /\ IdleTools

CallRenderGroupBars ==
    /\ pc = "ready"
    /\ bars' = RenderGroupBarsHtml("groups", Frames(frame, "region_bucket", GroupLabels),
                                   order, cmap, config)
    /\ pc' = "done"
    /\ UNCHANGED <<counts, order, config, layout, labels_data, positions, cmap,
                   cell, chosen, frame, S_sum, row>>
    /\ UNCHANGED toolVars

NextGroups == CallRenderGroupBars

SpecGroups == InitGroups /\ [][NextGroups]_vars

\* some row of the group names an option of the question
HasAnswers(name) ==
    \E i \in DOMAIN frame :
        /\ frame[i].region_bucket = name
        /\ \E o \in Range(order) : OptionText(o) \in CellToUniqueSet(frame[i].cell)

\* the groups with S > 0, in the given order
GroupsWithAnswers == SelectSeq(GroupLabels, HasAnswers)

\* C26: render_group_bars emits a bar for exactly the groups with S > 0, in
\* the given order, and none for a group with S == 0; it emits the no-data
\* placeholder, and no bar, exactly when every group has S == 0.
C26_EmptyGroupsSkipped ==
    pc = "done" =>
        /\ [k \in 1..Len(bars.inner) |-> bars.inner[k].name] = GroupsWithAnswers
        /\ \A k \in 1..Len(bars.inner) : bars.inner[k].S > 0 /\ bars.inner[k].segs # <<>>
        /\ bars.placeholder <=> \A k \in 1..Len(GroupLabels) : ~HasAnswers(GroupLabels[k])
        /\ bars.placeholder => bars.inner = <<>>

\* C26's case: the first and the third group have answers and get a bar, the
\* second has rows but no answer and gets none
C26_Witness ==
    /\ pc = "done"
    /\ ~bars.placeholder
    /\ Len(bars.inner) = 2
    /\ bars.inner[1].name = GroupLabels[1]
    /\ bars.inner[2].name = GroupLabels[3]
    /\ \E i \in DOMAIN frame : frame[i].region_bucket = GroupLabels[2]


---------------------------------------------------------------------------
(* resolve_choice_with_mapping (fill_template_excel.py) *)

\* yaml_choice in actual_choice, on str: sub occurs in s
Contains(sub, s) ==
    \E i \in 0..(Len(s) - Len(sub)) : SubSeq(s, i + 1, i + Len(sub)) = sub

\* yaml_choices.index(yaml_choice) + 1; 0 stands for ValueError
IndexIn(l, x) ==
    IF \E i \in DOMAIN l : l[i] = x
    THEN CHOOSE i \in DOMAIN l : l[i] = x /\ \A j \in 1..(i - 1) : l[j] # x
    ELSE 0

\* mapped_choice of step 1: the dict's value for the fragment, or the list's
\* entry at the fragment's place in yaml_choices; None otherwise
MappedChoice(yc, cm, ycs) ==
    IF cm.kind = "dict" /\ DOMAIN cm.d # {}
    THEN IF yc \in DOMAIN cm.d THEN cm.d[yc] ELSE NoChoice
    ELSE IF cm.kind = "list" /\ cm.l # <<>> /\ ~ycs.none /\ ycs.l # <<>>
    THEN IF IndexIn(ycs.l, yc) > 0 /\ IndexIn(ycs.l, yc) <= Len(cm.l)
         THEN cm.l[IndexIn(ycs.l, yc)]
         ELSE NoChoice
    ELSE NoChoice

\* if mapped_choice: not None and not the empty string
Truthy(v) == ~v.none /\ v.s # <<>>

\* for actual_choice in actual_choices: the first one, in the order the set is
\* iterated in, that contains the fragment
RECURSIVE FirstContaining(_, _)
FirstContaining(iter, yc) ==
    IF iter = <<>> THEN NoChoice
    ELSE IF Contains(yc, iter[1]) THEN Choice(iter[1])
    ELSE FirstContaining(Tail(iter), yc)

\* faulty variant: the substring search runs before the exact match
ResolveChoiceWithMapping_SubstringFirst(yc, cm, iter, ycs) ==
    IF Truthy(MappedChoice(yc, cm, ycs)) /\ MappedChoice(yc, cm, ycs).s \in Range(iter)
    THEN MappedChoice(yc, cm, ycs)
    ELSE FirstContaining(iter, yc)

\* resolve_choice_with_mapping, with actual_choices iterated in the order iter
ResolveChoiceWithMapping(yc, cm, iter, ycs) ==
    IF Truthy(MappedChoice(yc, cm, ycs)) /\ MappedChoice(yc, cm, ycs).s \in Range(iter)
    THEN MappedChoice(yc, cm, ycs)
    ELSE IF yc \in Range(iter) THEN Choice(yc)
    ELSE FirstContaining(iter, yc)

\* the orders a set of texts can be iterated in
IterationOrders(D) ==
    {f \in [1..Cardinality(D) -> D] : \A i, j \in 1..Cardinality(D) : f[i] = f[j] => i = j}

\* return matched_choice is not None: the caller counts the cell
ContainsChoice == ~matched_choice.none

---------------------------------------------------------------------------
(* Specification of resolve_choice_with_mapping on short texts *)

\* "a", "b", "aa", "ab", "ba", "bb"
ChoiceTexts == {<<1>>, <<2>>, <<1, 1>>, <<1, 2>>, <<2, 1>>, <<2, 2>>}

\* another configured choice
Filler == <<2, 2>>

\* what a mapping can name: null, "b", "ab"
MappedValues == {NoChoice, Choice(<<2>>), Choice(<<1, 2>>)}

\* mapping and yaml_choices as a caller passes them for the fragment yc
MappingArguments(yc) ==
    {<<NoMapping, NoList>>, <<DictMapping(<<>>), NoList>>, <<ListMapping(<<>>), ListOf(<<yc>>)>>}
    \cup {<<DictMapping([x \in {k} |-> v]), ycs>> :
              k \in {yc, Filler}, v \in MappedValues, ycs \in {NoList, ListOf(<<yc>>)}}
    \cup {<<ListMapping(l), ycs>> :
              l \in {<<v>> : v \in MappedValues} \cup (MappedValues \X MappedValues),
              ycs \in {NoList, ListOf(<<>>), ListOf(<<yc>>), ListOf(<<Filler, yc>>),
                       ListOf(<<Filler>>)}}

InitResolve ==
    /\ yaml_choice \in ChoiceTexts
    /\ actual_choices \in {D \in SUBSET ChoiceTexts : Cardinality(D) <= MaxKnown}
    /\ \E a \in MappingArguments(yaml_choice) :
          /\ choice_mapping = a[1]
          /\ yaml_choices = a[2]
    /\ matched_choice = NoChoice
    /\ hist = <<>>
    /\ pushed = <<>>
    /\ counts = <<>>
    /\ order = <<>>
    /\ config = DefaultConfig
    /\ layout = NoLayout
    /\ labels_data = <<>>
    /\ positions = <<>>
    /\ cmap = <<>>
    /\ pc = "ready"
    /\ IdleRows

\* one call; the set is iterated in one of its orders
CallResolveChoice ==
    /\ pc = "ready"
    /\ \E iter \in IterationOrders(actual_choices) :
          matched_choice' = ResolveChoiceWithMapping(yaml_choice, choice_mapping, iter,
                                                     yaml_choices)
    /\ pc' = "done"
    /\ UNCHANGED <<yaml_choice, choice_mapping, actual_choices, yaml_choices, hist, pushed>>
    /\ UNCHANGED <<counts, order, config, layout, labels_data, positions, cmap>>
    /\ UNCHANGED rowVars

NextResolve == CallResolveChoice

SpecResolve == InitResolve /\ [][NextResolve]_vars

\* the option the caller's mapping names for the fragment, None if it names none
MappingNames ==
    IF choice_mapping.kind = "dict" /\ yaml_choice \in DOMAIN choice_mapping.d
    THEN choice_mapping.d[yaml_choice]
    ELSE IF /\ choice_mapping.kind = "list"
            /\ \E i \in DOMAIN yaml_choices.l :
                  /\ yaml_choices.l[i] = yaml_choice
                  /\ \A j \in 1..(i - 1) : yaml_choices.l[j] # yaml_choice
                  /\ i \in DOMAIN choice_mapping.l
    THEN choice_mapping.l[CHOOSE i \in DOMAIN yaml_choices.l : yaml_choices.l[i] = yaml_choice]
    ELSE NoChoice

\* C25: the result is the option the mapping names when that is a known
\* option; otherwise the fragment itself when it is a known option; otherwise
\* a known option that contains the fragment; otherwise None, and the cell is
\* not counted.
C25_ResolutionOrder ==
    pc = "done" =>
        IF ~MappingNames.none /\ MappingNames.s \in actual_choices
        THEN matched_choice = MappingNames
        ELSE IF yaml_choice \in actual_choices
        THEN matched_choice = Choice(yaml_choice)
        ELSE IF \E k \in actual_choices : Contains(yaml_choice, k)
        THEN /\ ~matched_choice.none
             /\ matched_choice.s \in actual_choices
             /\ Contains(yaml_choice, matched_choice.s)
             /\ ContainsChoice
        ELSE matched_choice = NoChoice /\ ~ContainsChoice

\* C25's case: the mapping names an option that is not known, the fragment is
\* known itself and is also part of another known option; the exact match wins
C25_Witness ==
    /\ pc = "done"
    /\ ~MappingNames.none
    /\ MappingNames.s \notin actual_choices
    /\ yaml_choice \in actual_choices
    /\ \E k \in actual_choices : k # yaml_choice /\ Contains(yaml_choice, k)
    /\ matched_choice = Choice(yaml_choice)

\* C28: the result is the same in whatever order the known-option set is
\* iterated.
C28_ResultIndependentOfIteration ==
    pc = "done" =>
        \A iter \in IterationOrders(actual_choices) :
            ResolveChoiceWithMapping(yaml_choice, choice_mapping, iter, yaml_choices)
                = matched_choice

---------------------------------------------------------------------------
(* push_history (apps/pdai/app.py) *)

HISTORY_LIMIT == 5

\* json.dumps(asdict(config)): the text of configuration c; equal
\* configurations give equal texts
Payload(c) == <<"RunConfig", c>>

\* hist.remove(payload): the list without the first entry equal to payload
RECURSIVE Remove(_, _)
Remove(h, payload) ==
    IF h = <<>> THEN <<>>
    ELSE IF h[1] = payload THEN Tail(h)
    ELSE <<h[1]>> \o Remove(Tail(h), payload)

\* del hist[HISTORY_LIMIT:]
DelFrom(h, limit) == SubSeq(h, 1, IF Len(h) < limit THEN Len(h) ELSE limit)

\* faulty variant: an entry already in the list is not taken out first
PushHistory_NoRemove(h, c) == DelFrom(<<Payload(c)>> \o h, HISTORY_LIMIT)

\* push_history: the list after the call with configuration c
PushHistory(h, c) ==
    DelFrom(<<Payload(c)>>
                \o (IF Payload(c) \in Range(h) THEN Remove(h, Payload(c)) ELSE h),
            HISTORY_LIMIT)

---------------------------------------------------------------------------
(* Specification of push_history over a session *)

\* configurations are numbered in the order of their first push
NextConfigs ==
    1..(IF Cardinality(Range(pushed)) < NumConfigs
        THEN Cardinality(Range(pushed)) + 1
        ELSE NumConfigs)

\* init_session: an empty history
InitHistory ==
    /\ hist = <<>>
    /\ pushed = <<>>
    /\ yaml_choice = <<>>
    /\ choice_mapping = NoMapping
    /\ actual_choices = {}
    /\ yaml_choices = NoList
    /\ matched_choice = NoChoice
    /\ counts = <<>>
    /\ order = <<>>
    /\ config = DefaultConfig
    /\ layout = NoLayout
    /\ labels_data = <<>>
    /\ positions = <<>>
    /\ cmap = <<>>
    /\ pc = "ready"
    /\ IdleRows

CallPushHistory ==
    /\ Len(pushed) < MaxPushes
    /\ \E c \in NextConfigs :
          /\ hist' = PushHistory(hist, c)
          /\ pushed' = Append(pushed, c)
    /\ UNCHANGED <<yaml_choice, choice_mapping, actual_choices, yaml_choices, matched_choice>>
    /\ UNCHANGED <<counts, order, config, layout, labels_data, positions, cmap, pc>>
    /\ UNCHANGED rowVars

NextHistory == CallPushHistory

SpecHistory == InitHistory /\ [][NextHistory]_vars

\* the place in pushed of the latest push of the configuration with text p
LastPush(p) ==
    CHOOSE i \in DOMAIN pushed :
        /\ Payload(pushed[i]) = p
        /\ \A j \in (i + 1)..Len(pushed) : Payload(pushed[j]) # p

\* the history holds at most HISTORY_LIMIT entries, all different and all
\* pushed, the latest push first and the others by the time of their latest push
HistoryIsRecent ==
    /\ Len(hist) <= HISTORY_LIMIT
    /\ \A i, j \in DOMAIN hist : hist[i] = hist[j] => i = j
    /\ \A i \in DOMAIN hist : \E k \in DOMAIN pushed : Payload(pushed[k]) = hist[i]
    /\ pushed # <<>> => hist # <<>> /\ hist[1] = Payload(pushed[Len(pushed)])
    /\ \A i, j \in DOMAIN hist : i < j => LastPush(hist[i]) > LastPush(hist[j])
    /\ \A k \in DOMAIN pushed :
          Payload(pushed[k]) \notin Range(hist) =>
              /\ Len(hist) = HISTORY_LIMIT
              /\ k < LastPush(hist[HISTORY_LIMIT])

\* a push of a configuration that is in the history moves it to the front and
\* leaves the others in their order
RepushMovesToFront ==
    (pushed' # pushed /\ Payload(pushed'[Len(pushed')]) \in Range(hist)) =>
        /\ Len(hist') = Len(hist)
        /\ hist'[1] = Payload(pushed'[Len(pushed')])
        /\ Tail(hist') = SelectSeq(hist, LAMBDA e : e # hist'[1])

\* C29: after any sequence of push_history calls the history holds at most
\* HISTORY_LIMIT entries, no configuration twice, the most recently pushed one
\* first and the others most recent first; pushing a configuration that is
\* present moves it to the front and keeps the length.
C29_HistoryBoundedAndRecent == []HistoryIsRecent /\ [][RepushMovesToFront]_vars

\* C29's case: more configurations pushed than the history holds, then one
\* that was still in the history, behind the front, pushed again
C29_Witness ==
    /\ Len(pushed) >= HISTORY_LIMIT + 2
    /\ Cardinality(Range(pushed)) > HISTORY_LIMIT
    /\ Len(hist) = HISTORY_LIMIT
    /\ \E k \in 1..(Len(pushed) - 2) :
          /\ pushed[k] = pushed[Len(pushed)]
          /\ \A j \in (k + 1)..(Len(pushed) - 1) : pushed[j] # pushed[k]
          /\ Cardinality({pushed[j] : j \in (k + 1)..(Len(pushed) - 1)}) \in 2..(HISTORY_LIMIT - 1)
    /\ \E k \in DOMAIN pushed : Payload(pushed[k]) \notin Range(hist)

====
